---- MODULE Spec2Model ----
(***************************************************************************)
(* Model of the attribute mapper of converter/converters.py and            *)
(* converter/parsers.py: BaseConverter.__init__ (the three _setup_* steps) *)
(* and BaseConverter.convert, executed field by field by client threads,   *)
(* together with direct calls of the parsers.                              *)
(***************************************************************************)
EXTENDS Integers, Sequences, FiniteSets, TLC

\* ------------------------------------------------------------------------
\* Bounds of the model
\* ------------------------------------------------------------------------

\* longest rename_pairs list a converter class declares
MaxRename == 2

Threads == {1, 2}

\* ------------------------------------------------------------------------
\* Python values and types
\* ------------------------------------------------------------------------

NoneType == "NoneType"

\* typing.Optional[t]: Optional[NoneType] is NoneType, Optional[Optional[t]]
\* is Optional[t]
Optional(t) ==
    CASE t = "int" -> "Optional[int]"
      [] t = "str" -> "Optional[str]"
      [] t = "bytes" -> "Optional[bytes]"
      [] OTHER -> t

\* a value: its runtime type, and its payload (i for an int, s for the
\* characters of a str or bytes)
NoneV == [t |-> NoneType, i |-> 0, s |-> <<>>]
IntV(n) == [t |-> "int", i |-> n, s |-> <<>>]
StrV(cs) == [t |-> "str", i |-> 0, s |-> cs]
BytesV(cs) == [t |-> "bytes", i |-> 0, s |-> cs]

Digits == <<"0", "1", "2", "3", "4", "5", "6", "7", "8", "9">>

IsDigit(c) == \E d \in 1..10 : Digits[d] = c

DigitVal(c) == (CHOOSE d \in 1..10 : Digits[d] = c) - 1

RECURSIVE DigitsToInt(_)
DigitsToInt(cs) ==
    IF cs = <<>> THEN 0
    ELSE 10 * DigitsToInt(SubSeq(cs, 1, Len(cs) - 1)) + DigitVal(cs[Len(cs)])

RECURSIVE IntToDigits(_)
IntToDigits(n) ==
    IF n < 10 THEN <<Digits[n + 1]>>
    ELSE Append(IntToDigits(n \div 10), Digits[(n % 10) + 1])

\* ------------------------------------------------------------------------
\* parsers.py
\* ------------------------------------------------------------------------

\* the outcome of a call: the exception raised ("" when none), the value
\* returned, and whether parse() was entered
Returned(v, p) == [raised |-> "", value |-> v, parsed |-> p]
Raised(e, p) == [raised |-> e, value |-> NoneV, parsed |-> p]

\* StrIntParser.parse: int(value)
StrIntParser_parse(value) ==
    IF value.s # <<>> /\ \A k \in 1..Len(value.s) : IsDigit(value.s[k])
    THEN Returned(IntV(DigitsToInt(value.s)), TRUE)
    ELSE Raised("ValueError", TRUE)

\* IntStrParser.parse: str(value)
IntStrParser_parse(value) == Returned(StrV(IntToDigits(value.i)), TRUE)

\* BaseParser.parse
BaseParser_parse(value) == Raised("NotImplementedError", TRUE)

Parsers == {"BaseParser", "IntStrParser", "StrIntParser"}

parse(parser, value) ==
    CASE parser = "StrIntParser" -> StrIntParser_parse(value)
      [] parser = "IntStrParser" -> IntStrParser_parse(value)
      [] OTHER -> BaseParser_parse(value)

\* BaseParser.__call__
BaseParser_call(parser, value) ==
    IF value = NoneV THEN Returned(NoneV, FALSE) ELSE parse(parser, value)

origin_type(parser) ==
    CASE parser = "StrIntParser" -> "str"
      [] parser = "IntStrParser" -> "int"

return_type(parser) ==
    CASE parser = "StrIntParser" -> "int"
      [] parser = "IntStrParser" -> "str"

\* BaseParser.get_parse_types
get_parse_types(parser) ==
    << <<origin_type(parser), Optional(return_type(parser))>>,
       <<Optional(origin_type(parser)), Optional(return_type(parser))>>,
       <<origin_type(parser), return_type(parser)>> >>

\* ------------------------------------------------------------------------
\* Python containers
\* ------------------------------------------------------------------------

EmptyDict == [k \in {} |-> NoneV]

\* d[k] = v
DictSet(d, k, v) == [x \in DOMAIN d \cup {k} |-> IF x = k THEN v ELSE d[x]]

\* d.update(e)
DictUpdate(d, e) ==
    [x \in DOMAIN d \cup DOMAIN e |-> IF x \in DOMAIN e THEN e[x] ELSE d[x]]

\* set(seq)
SetOf(seq) == {seq[k] : k \in 1..Len(seq)}

\* dict(pairs) of a list of 2-tuples: the last pair of a key gives its value
DictOf(pairs) ==
    [x \in {pairs[k][1] : k \in 1..Len(pairs)} |->
        pairs[CHOOSE k \in 1..Len(pairs) :
                /\ pairs[k][1] = x
                /\ \A j \in (k + 1)..Len(pairs) : pairs[j][1] # x][2]]

\* list(dict(pairs).keys()): a key keeps the place of its first insertion
RECURSIVE KeysOf(_)
KeysOf(pairs) ==
    IF pairs = <<>> THEN <<>>
    ELSE LET front == KeysOf(SubSeq(pairs, 1, Len(pairs) - 1))
             k == pairs[Len(pairs)][1]
         IN IF k \in SetOf(front) THEN front ELSE Append(front, k)

\* the orders in which a set can be iterated
Orders(S) ==
    {q \in [1..Cardinality(S) -> S] : \A a, b \in 1..Cardinality(S) : a # b => q[a] # q[b]}

Lists(S, n) == UNION {[1..m -> S] : m \in 0..n}

\* ------------------------------------------------------------------------
\* The classes the converters are declared over
\* ------------------------------------------------------------------------

NoHints == [k \in {} |-> "int"]

\* tests/test_converters.py: the dataclasses A, B, C, D, and object
A == [name |-> "A", fields |-> <<"attr1", "attr2">>,
      hints |-> [attr1 |-> "int", attr2 |-> "str"], defaults |-> {}]
B == [name |-> "B", hints |-> [attr1 |-> "int", attr2 |-> "int"], defaults |-> {}]
C == [name |-> "C", hints |-> [attr1 |-> "int", attr2 |-> "int", attr3 |-> "int"],
      defaults |-> {}]
D == [name |-> "D", hints |-> [attr1 |-> "bytes"], defaults |-> {}]
Object == [name |-> "object", hints |-> NoHints, defaults |-> {}]
\* a dataclass of optional fields that default to None
E == [name |-> "E", hints |-> [attr1 |-> "Optional[str]", attr2 |-> "Optional[int]"],
      defaults |-> {"attr1", "attr2"}]

ReturnClasses == {B, C, D, E, Object}

\* a return_compute_fields item names "get_attr1", which is lambda x: x.attr1,
\* or "failing", which raises

TypeHintLists == {<<>>, << <<"attr3", "str">> >>}

ExcludeLists == {<<>>, <<"attr1">>, <<"attr3">>}

ComputeLists ==
    {<<>>, << <<"attr3", "get_attr1">> >>, << <<"attr1", "get_attr1">> >>,
     << <<"attr1", "failing">> >>}

\* attr3 is no attribute of A
RenameItems == {"attr1", "attr3"} \X {"attr2", "attr3"}

RenameLists == Lists(RenameItems, MaxRename)

\* the class attributes of a BaseConverter subclass
Configs ==
    [origin_class : {A},
     return_class : ReturnClasses,
     return_compute_fields : ComputeLists,
     rename_pairs : RenameLists,
     return_type_hints : TypeHintLists,
     exclude_fields : ExcludeLists]

\* the values an attribute of an instance of A can hold
Values ==
    {NoneV, IntV(12), StrV(<<"1", "2">>), StrV(<<"x">>), BytesV(<<"1">>)}

Instances == [DOMAIN A.hints -> Values]

ABConverter ==
    [origin_class |-> A, return_class |-> B, return_compute_fields |-> <<>>,
     rename_pairs |-> <<>>, return_type_hints |-> <<>>, exclude_fields |-> <<>>]

ACRenameConverter == [ABConverter EXCEPT !.return_class = C,
                         !.rename_pairs = << <<"attr1", "attr3">> >>]

ACComputeConverter == [ABConverter EXCEPT !.return_class = C,
                         !.return_compute_fields = << <<"attr3", "get_attr1">> >>]

ADConverter == [ABConverter EXCEPT !.return_class = D]

TestConverters == {ABConverter, ACRenameConverter, ACComputeConverter, ADConverter}

\* ------------------------------------------------------------------------
\* State
\* ------------------------------------------------------------------------

VARIABLES
    cfg,                     \* the converter class: its class attributes
    status,                  \* "class", then "ok" or "ConfigError" after __init__
    parsers_mapping,         \* self._parsers_mapping
    compute_fields_mapping,  \* self._compute_fields_mapping
    compute_iter,            \* the key order of self._compute_fields_mapping
    origin_attrs,            \* self.origin_attrs
    return_hints,            \* self.return_hints
    return_attrs,            \* self.return_attrs
    origin_rename,           \* self.origin_rename
    return_rename,           \* self.return_rename
    origin_contains,         \* self.origin_contains
    contains_iter,           \* the iteration order of the set self.origin_contains
    clients,                 \* the threads that call the converter
    call                     \* per thread: the call it is executing

engineVars ==
    <<parsers_mapping, compute_fields_mapping, compute_iter, origin_attrs, return_hints,
      return_attrs, origin_rename, return_rename, origin_contains, contains_iter>>

vars == <<cfg, status, engineVars, clients, call>>

\* ------------------------------------------------------------------------
\* BaseConverter.__init__
\* ------------------------------------------------------------------------

\* BaseConverter._get_parsers
get_parsers == <<"StrIntParser", "IntStrParser">>

\* BaseConverter._setup_parsers: for each parser in turn, update the mapping
\* with {type_: parser for type_ in parser.get_parse_types()}
RECURSIVE setup_parsers(_)
setup_parsers(parsers) ==
    IF parsers = <<>> THEN [k \in {} |-> ""]
    ELSE LET parser == parsers[Len(parsers)]
             types == get_parse_types(parser)
         IN DictUpdate(setup_parsers(SubSeq(parsers, 1, Len(parsers) - 1)),
                       [k \in SetOf(types) |-> parser])

\* BaseConverter._get_origin_attrs: list(get_type_hints(origin_class).keys())
get_origin_attrs(origin_class) == origin_class.fields

\* BaseConverter._parse_rename_mapping
parse_rename_mapping(doublet) ==
    << [k \in 1..Len(doublet) |-> doublet[k][1]],
       [k \in 1..Len(doublet) |-> doublet[k][2]] >>

\* the emptiness check that never fires
NoTypeHints_never(hints) == Cardinality(DOMAIN hints) < 0

\* line 83: len(self.return_hints) == 0
NoTypeHints(hints) == Cardinality(DOMAIN hints) = 0

\* the duplicate check with > for !=
HasDuplicates_greater(names) == Cardinality(SetOf(names)) > Len(names)

\* line 93: len(return_rename_set) != len(self.return_rename)
HasDuplicates(names) == Cardinality(SetOf(names)) # Len(names)

\* the hints of return_class updated with dict(return_type_hints)
SetupReturnHints(c) == DictUpdate(c.return_class.hints, DictOf(c.return_type_hints))

\* line 88
SetupReturnAttrs(c, hints) ==
    (DOMAIN hints \ SetOf(c.exclude_fields)) \ SetOf(KeysOf(c.return_compute_fields))

\* line 100
SetupOriginContains(attrs, renamed, origin) == (attrs \ renamed) \cap SetOf(origin)

\* __init__: _setup_convert_classes, _setup_parsers, _setup_attrs. An
\* attribute assigned before a ConfigError is raised keeps its value.
BaseConverter_init ==
    /\ status = "class"
    /\ parsers_mapping' = setup_parsers(get_parsers)
    /\ compute_fields_mapping' = DictOf(cfg.return_compute_fields)
    /\ compute_iter' = KeysOf(cfg.return_compute_fields)
    /\ origin_attrs' = get_origin_attrs(cfg.origin_class)
    /\ return_hints' = SetupReturnHints(cfg)
    /\ IF NoTypeHints(return_hints')
       THEN /\ status' = "ConfigError"
            /\ UNCHANGED <<return_attrs, origin_rename, return_rename, origin_contains,
                           contains_iter>>
       ELSE /\ return_attrs' = SetupReturnAttrs(cfg, return_hints')
            /\ origin_rename' = parse_rename_mapping(cfg.rename_pairs)[1]
            /\ return_rename' = parse_rename_mapping(cfg.rename_pairs)[2]
            /\ IF HasDuplicates(return_rename')
               THEN /\ status' = "ConfigError"
                    /\ UNCHANGED <<origin_contains, contains_iter>>
               ELSE /\ status' = "ok"
                    /\ origin_contains' =
                           SetupOriginContains(return_attrs', SetOf(return_rename'),
                                               origin_attrs')
                    /\ contains_iter' \in Orders(origin_contains')
    /\ UNCHANGED <<cfg, clients, call>>

\* ------------------------------------------------------------------------
\* BaseConverter.convert
\* ------------------------------------------------------------------------

NoError == [kind |-> "", attr_from |-> "", attr_to |-> "", cause |-> ""]

\* ParsingError with its two names exchanged
ParsingError_swapped(attr_from, attr_to, cause) ==
    [kind |-> "ParsingError", attr_from |-> attr_to, attr_to |-> attr_from, cause |-> cause]

\* exceptions.py: ParsingError(attr_from, attr_to), raised from the cause
ParsingError(attr_from, attr_to, cause) ==
    [kind |-> "ParsingError", attr_from |-> attr_from, attr_to |-> attr_to, cause |-> cause]

\* any other exception, as it leaves convert
Exception(kind) == [kind |-> kind, attr_from |-> "", attr_to |-> "", cause |-> ""]

\* a thread that has called nothing yet
Idle ==
    [pc |-> "idle", instance |-> EmptyDict, idx |-> 0,
     contains_result |-> EmptyDict, rename_result |-> EmptyDict,
     need_compute_result |-> EmptyDict, error |-> NoError,
     invoked |-> FALSE, passed |-> EmptyDict, returned |-> EmptyDict, log |-> <<>>]

\* what the processing of one field did: the attribute read and the value
\* got, whether the registry was looked up and under which types, the parser
\* called and how often, the value assigned or the exception raised
Event(op, attr_from, attr_to) ==
    [op |-> op, attr_from |-> attr_from, attr_to |-> attr_to, read |-> FALSE,
     val |-> NoneV, lookup |-> FALSE, val_type |-> "", return_type |-> "", parser |-> "",
     applied |-> 0, assigned |-> FALSE, out |-> NoneV, raised |-> ""]

\* BaseConverter._get_origin_value_type
get_origin_value_type(val) == val.t

\* the place convert continues at: the next field of the loop it is in, or
\* the first statement after the loops that have nothing left
Continue(pc, idx) ==
    LET p1 == IF pc = "samename" /\ idx > Len(contains_iter)
              THEN <<"rename", 1>> ELSE <<pc, idx>>
        p2 == IF p1[1] = "rename" /\ p1[2] > Len(origin_rename)
              THEN <<"compute", 1>> ELSE p1
    IN IF p2[1] = "compute" /\ p2[2] > Len(compute_iter)
       THEN <<"construct", 1>> ELSE p2

\* the exception is kept and the loop goes on to the next field
Raise_collect(c, e, ev) ==
    [c EXCEPT !.error = e, !.log = Append(c.log, ev),
              !.pc = IF c.pc = "construct" THEN "failed" ELSE Continue(c.pc, c.idx + 1)[1],
              !.idx = IF c.pc = "construct" THEN c.idx ELSE Continue(c.pc, c.idx + 1)[2]]

\* the statement an exception leaves convert at: nothing after it runs
Raise(c, e, ev) ==
    [c EXCEPT !.pc = "failed", !.error = e, !.log = Append(c.log, ev)]

\* line 141 without the test for None
NeedsParsing_none(val, val_type, ret_type) ==
    /\ val_type # ret_type
    /\ Optional(val_type) # ret_type

\* line 141
NeedsParsing(val, val_type, ret_type) ==
    /\ val_type # ret_type
    /\ Optional(val_type) # ret_type
    /\ val # NoneV

\* self.return_hints.get(attr_to)
LookupReturnHint_get(attr_to) ==
    IF attr_to \in DOMAIN return_hints
    THEN [raised |-> "", type |-> return_hints[attr_to]]
    ELSE [raised |-> "", type |-> NoneType]

\* line 140: self.return_hints[attr_to]
LookupReturnHint(attr_to) ==
    IF attr_to \in DOMAIN return_hints
    THEN [raised |-> "", type |-> return_hints[attr_to]]
    ELSE [raised |-> "KeyError", type |-> ""]

\* the key with the two types exchanged
ParserKey_reversed(val_type, ret_type) == <<ret_type, val_type>>

\* line 143: the key of self._parsers_mapping[val_type, return_type]
ParserKey(val_type, ret_type) == <<val_type, ret_type>>

\* lines 142-145: the parser registered for the pair of types called on val;
\* KeyError and ValueError become ParsingError, any other exception passes
ParseValue(attr_from, attr_to, val, val_type, ret_type, ev) ==
    LET key == ParserKey(val_type, ret_type)
        looked == [ev EXCEPT !.lookup = TRUE, !.val_type = val_type,
                             !.return_type = ret_type]
    IN IF key \notin DOMAIN parsers_mapping
       THEN [error |-> ParsingError(attr_from, attr_to, "KeyError"),
             ev |-> [looked EXCEPT !.raised = "ParsingError"]]
       ELSE LET parser == parsers_mapping[key]
                r == BaseParser_call(parser, val)
                called == [looked EXCEPT !.parser = parser, !.applied = 1]
            IN IF r.raised = "ValueError"
               THEN [error |-> ParsingError(attr_from, attr_to, "ValueError"),
                     ev |-> [called EXCEPT !.raised = "ParsingError"]]
               ELSE IF r.raised # ""
               THEN [error |-> Exception(r.raised),
                     ev |-> [called EXCEPT !.raised = r.raised]]
               ELSE [error |-> NoError,
                     ev |-> [called EXCEPT !.assigned = TRUE, !.out = r.value]]

\* lines 138-146: the body of the loop of _parse_rename for one pair
ParseField(op, attr_from, attr_to, instance) ==
    LET ev0 == Event(op, attr_from, attr_to)
    IN IF attr_from \notin DOMAIN instance
       THEN [error |-> Exception("AttributeError"),
             ev |-> [ev0 EXCEPT !.raised = "AttributeError"]]
       ELSE LET val == instance[attr_from]
                ev1 == [ev0 EXCEPT !.read = TRUE, !.val = val]
                val_type == get_origin_value_type(val)
                hint == LookupReturnHint(attr_to)
            IN IF hint.raised # ""
               THEN [error |-> Exception(hint.raised),
                     ev |-> [ev1 EXCEPT !.raised = hint.raised]]
               ELSE IF NeedsParsing(val, val_type, hint.type)
               THEN ParseValue(attr_from, attr_to, val, val_type, hint.type, ev1)
               ELSE [error |-> NoError,
                     ev |-> [ev1 EXCEPT !.assigned = TRUE, !.out = val]]

\* one turn of the loop of _parse_samename
StepSamename(c) ==
    LET attr == contains_iter[c.idx]
        r == ParseField("samename", attr, attr, c.instance)
        next == Continue("samename", c.idx + 1)
    IN IF r.error # NoError THEN Raise(c, r.error, r.ev)
       ELSE [c EXCEPT !.contains_result = DictSet(c.contains_result, attr, r.ev.out),
                      !.log = Append(c.log, r.ev),
                      !.pc = next[1], !.idx = next[2]]

\* one turn of the loop of _parse_rename over zip(origin_rename, return_rename)
StepRename(c) ==
    LET attr_from == origin_rename[c.idx]
        attr_to == return_rename[c.idx]
        r == ParseField("rename", attr_from, attr_to, c.instance)
        next == Continue("rename", c.idx + 1)
    IN IF r.error # NoError THEN Raise(c, r.error, r.ev)
       ELSE [c EXCEPT !.rename_result = DictSet(c.rename_result, attr_to, r.ev.out),
                      !.log = Append(c.log, r.ev),
                      !.pc = next[1], !.idx = next[2]]

\* func(instance) of a return_compute_fields item
CallCompute(func, instance) ==
    IF func = "get_attr1" THEN Returned(instance["attr1"], FALSE)
    ELSE Raised("ZeroDivisionError", FALSE)

\* one turn of the loop of _parse_need_compute
StepCompute(c) ==
    LET attr == compute_iter[c.idx]
        r == CallCompute(compute_fields_mapping[attr], c.instance)
        ev == [Event("compute", "", attr) EXCEPT !.parser = compute_fields_mapping[attr],
                                                  !.applied = 1]
        next == Continue("compute", c.idx + 1)
    IN IF r.raised # ""
       THEN Raise(c, Exception(r.raised), [ev EXCEPT !.raised = r.raised])
       ELSE [c EXCEPT !.need_compute_result = DictSet(c.need_compute_result, attr, r.value),
                      !.log = Append(c.log, [ev EXCEPT !.assigned = TRUE, !.out = r.value]),
                      !.pc = next[1], !.idx = next[2]]

\* a dataclass's __init__: every field without a default has to be passed,
\* nothing but fields can be
Constructor(class, kwargs) ==
    IF /\ DOMAIN kwargs \subseteq DOMAIN class.hints
       /\ (DOMAIN class.hints \ class.defaults) \subseteq DOMAIN kwargs
    THEN Returned([k \in DOMAIN class.hints |->
                       IF k \in DOMAIN kwargs THEN kwargs[k] ELSE NoneV], FALSE)
    ELSE Raised("TypeError", FALSE)

\* lines 118-119: ReturnClass(**contains_result, **rename_result,
\* **need_compute_result); a keyword given twice is a TypeError of the call
StepConstruct(c) ==
    LET a == c.contains_result
        b == c.rename_result
        d == c.need_compute_result
        ev == Event("construct", "", "")
    IN IF \/ DOMAIN a \cap DOMAIN b # {}
          \/ DOMAIN a \cap DOMAIN d # {}
          \/ DOMAIN b \cap DOMAIN d # {}
       THEN Raise(c, Exception("TypeError"), [ev EXCEPT !.raised = "TypeError"])
       ELSE LET kwargs == DictUpdate(DictUpdate(a, b), d)
                r == Constructor(cfg.return_class, kwargs)
                called == [c EXCEPT !.invoked = TRUE, !.passed = kwargs]
            IN IF r.raised # ""
               THEN Raise(called, Exception(r.raised), [ev EXCEPT !.raised = r.raised])
               ELSE [called EXCEPT !.pc = "done", !.returned = r.value,
                                   !.log = Append(c.log, ev)]

\* the next statement of a call of convert
Step(c) ==
    CASE c.pc = "samename" -> StepSamename(c)
      [] c.pc = "rename" -> StepRename(c)
      [] c.pc = "compute" -> StepCompute(c)
      [] c.pc = "construct" -> StepConstruct(c)
      [] OTHER -> c

\* convert(instance) is entered
Enter(instance) ==
    [Idle EXCEPT !.instance = instance,
                 !.pc = Continue("samename", 1)[1], !.idx = 1]

\* ------------------------------------------------------------------------
\* Actions
\* ------------------------------------------------------------------------

\* a thread calls convert on the converter
Convert(t, instance) ==
    /\ status = "ok"
    /\ call[t].pc = "idle"
    /\ call' = [call EXCEPT ![t] = Enter(instance)]
    /\ UNCHANGED <<cfg, status, engineVars, clients>>

ParseSamename(t) ==
    /\ call[t].pc = "samename"
    /\ call' = [call EXCEPT ![t] = StepSamename(call[t])]
    /\ UNCHANGED <<cfg, status, engineVars, clients>>

\* the loop over the rename pairs written to use the pairs up
ParseRename_consuming(t) ==
    /\ call[t].pc = "rename"
    /\ call' = [call EXCEPT ![t] = StepRename(call[t])]
    /\ origin_rename' = SubSeq(origin_rename, 2, Len(origin_rename))
    /\ return_rename' = SubSeq(return_rename, 2, Len(return_rename))
    /\ UNCHANGED <<cfg, status, clients, parsers_mapping, compute_fields_mapping,
                   compute_iter, origin_attrs, return_hints, return_attrs,
                   origin_contains, contains_iter>>

ParseRename(t) ==
    /\ call[t].pc = "rename"
    /\ call' = [call EXCEPT ![t] = StepRename(call[t])]
    /\ UNCHANGED <<cfg, status, engineVars, clients>>

ParseNeedCompute(t) ==
    /\ call[t].pc = "compute"
    /\ call' = [call EXCEPT ![t] = StepCompute(call[t])]
    /\ UNCHANGED <<cfg, status, engineVars, clients>>

Construct(t) ==
    /\ call[t].pc = "construct"
    /\ call' = [call EXCEPT ![t] = StepConstruct(call[t])]
    /\ UNCHANGED <<cfg, status, engineVars, clients>>

\* a thread calls a parser on a value: parser(value)
CallParser(t, parser, value) ==
    /\ call[t].pc = "idle"
    /\ LET r == BaseParser_call(parser, value)
           ev == [Event("call", "", "") EXCEPT
                      !.read = TRUE, !.val = value, !.parser = parser,
                      !.applied = IF r.parsed THEN 1 ELSE 0,
                      !.assigned = r.raised = "", !.out = r.value, !.raised = r.raised]
       IN call' = [call EXCEPT ![t] =
                       [Idle EXCEPT !.pc = "parsed", !.log = <<ev>>,
                                    !.error = IF r.raised = "" THEN NoError
                                              ELSE Exception(r.raised)]]
    /\ UNCHANGED <<cfg, status, engineVars, clients>>

NoEngine ==
    /\ status = "class"
    /\ parsers_mapping = [k \in {} |-> ""]
    /\ compute_fields_mapping = [k \in {} |-> ""]
    /\ compute_iter = <<>>
    /\ origin_attrs = <<>>
    /\ return_hints = NoHints
    /\ return_attrs = {}
    /\ origin_rename = <<>>
    /\ return_rename = <<>>
    /\ origin_contains = {}
    /\ contains_iter = <<>>
    /\ call = [t \in Threads |-> Idle]

\* a converter class is declared; one thread uses it
Init ==
    /\ cfg \in Configs
    /\ clients = {1}
    /\ NoEngine

\* a converter class of the tests is declared; two threads use it
InitShared ==
    /\ cfg \in TestConverters
    /\ clients = Threads
    /\ NoEngine

Next ==
    \/ BaseConverter_init
    \/ \E t \in clients, instance \in Instances : Convert(t, instance)
    \/ \E t \in clients : ParseSamename(t)
    \/ \E t \in clients : ParseRename(t)
    \/ \E t \in clients : ParseNeedCompute(t)
    \/ \E t \in clients : Construct(t)
    \/ \E t \in clients, parser \in Parsers, value \in Values : CallParser(t, parser, value)

Spec == Init /\ [][Next]_vars

SpecShared == InitShared /\ [][Next]_vars

\* ------------------------------------------------------------------------
\* Vocabulary of the properties
\* ------------------------------------------------------------------------

\* the names the target declares: its type hints and return_type_hints
DeclaredFields(c) ==
    DOMAIN c.return_class.hints \cup {c.return_type_hints[k][1] : k \in 1..Len(c.return_type_hints)}

ComputedFields(c) ==
    {c.return_compute_fields[k][1] : k \in 1..Len(c.return_compute_fields)}

\* the declared names that are neither excluded nor computed
ResolvedFields(c) ==
    (DeclaredFields(c) \ {c.exclude_fields[k] : k \in 1..Len(c.exclude_fields)})
        \ ComputedFields(c)

\* two rename pairs have the same target
DuplicateRenameTargets(c) ==
    \E i, j \in 1..Len(c.rename_pairs) :
        i # j /\ c.rename_pairs[i][2] = c.rename_pairs[j][2]

\* a rename pair's target is not declared
UndeclaredRenameTarget(c) ==
    \E i \in 1..Len(c.rename_pairs) : c.rename_pairs[i][2] \notin DeclaredFields(c)

Converting(c) == c.pc \in {"samename", "rename", "compute", "construct"}
Finished(c) == c.pc \in {"done", "failed"}

\* the fields in the order convert processes them: the same-name fields, the
\* rename pairs, the computed fields
ProcessingOrder ==
    [k \in 1..Len(contains_iter) |-> <<"samename", contains_iter[k], contains_iter[k]>>]
    \o [k \in 1..Len(origin_rename) |-> <<"rename", origin_rename[k], return_rename[k]>>]
    \o [k \in 1..Len(compute_iter) |-> <<"compute", "", compute_iter[k]>>]

\* the log of a call of convert names the fields in the processing order
FollowsOrder(c) ==
    /\ Len(c.log) <= Len(ProcessingOrder) + 1
    /\ \A k \in 1..Len(c.log) :
          IF k <= Len(ProcessingOrder)
          THEN <<c.log[k].op, c.log[k].attr_from, c.log[k].attr_to>> = ProcessingOrder[k]
          ELSE c.log[k].op = "construct"

\* the processings of a same-name or renamed field by the calls of convert
FieldEvents ==
    {<<t, k>> \in clients \X (1..(Len(ProcessingOrder) + 1)) :
        /\ k <= Len(call[t].log)
        /\ call[t].log[k].op \in {"samename", "rename"}}

\* the field of the event was read and has a declared type the value's type
\* does not match
Mismatched(ev) ==
    /\ ev.read
    /\ ev.val # NoneV
    /\ ev.attr_to \in DOMAIN return_hints
    /\ ev.val.t # return_hints[ev.attr_to]
    /\ Optional(ev.val.t) # return_hints[ev.attr_to]

Registered(ev) == <<ev.val.t, return_hints[ev.attr_to]>> \in DOMAIN parsers_mapping

Coercion(ev) == parsers_mapping[<<ev.val.t, return_hints[ev.attr_to]>>]

\* the value a finished call gave the target's field
TargetValue(c, op, attr) ==
    IF op = "samename" THEN c.contains_result[attr] ELSE c.rename_result[attr]

\* ------------------------------------------------------------------------
\* C1
\* ------------------------------------------------------------------------

\* C1 as stated: initialization raises ConfigError whenever the declared
\* fields minus the excluded and the computed ones are empty.
C1_EmptyResolvedRaises ==
    (status # "class" /\ ResolvedFields(cfg) = {}) => status = "ConfigError"

\* C1 as amended: initialization raises ConfigError whenever the target's
\* type hints united with return_type_hints are empty, and the excluded and
\* computed fields play no part: with some declared field and no duplicate
\* rename target it succeeds.
C1_NoDeclaredRaises ==
    /\ (status # "class" /\ DeclaredFields(cfg) = {}) => status = "ConfigError"
    /\ (status # "class" /\ DeclaredFields(cfg) # {} /\ ~DuplicateRenameTargets(cfg))
          => status = "ok"

C1_Witness ==
    /\ status = "ConfigError"
    /\ DeclaredFields(cfg) = {}
    /\ ~DuplicateRenameTargets(cfg)

\* ------------------------------------------------------------------------
\* C2
\* ------------------------------------------------------------------------

\* C2: a converter whose rename_pairs name a target twice, from the same or
\* from different origin fields, raises ConfigError in __init__, and no
\* converter exists to call convert on.
C2_DuplicateRenameRaises ==
    (status # "class" /\ DuplicateRenameTargets(cfg)) =>
        /\ status = "ConfigError"
        /\ \A t \in clients : ~Converting(call[t]) /\ ~Finished(call[t])

C2_Witness ==
    /\ status = "ConfigError"
    /\ DeclaredFields(cfg) # {}
    /\ \E i, j \in 1..Len(cfg.rename_pairs) :
          /\ cfg.rename_pairs[i][2] = cfg.rename_pairs[j][2]
          /\ cfg.rename_pairs[i][1] # cfg.rename_pairs[j][1]

\* ------------------------------------------------------------------------
\* C3
\* ------------------------------------------------------------------------

\* C3: after a successful __init__ the same-name fields, the rename targets
\* and the computed fields are pairwise disjoint.
C3_PathwaysDisjoint ==
    status = "ok" =>
        /\ origin_contains \cap SetOf(return_rename) = {}
        /\ origin_contains \cap DOMAIN compute_fields_mapping = {}
        /\ SetOf(return_rename) \cap DOMAIN compute_fields_mapping = {}

\* ------------------------------------------------------------------------
\* C4
\* ------------------------------------------------------------------------

\* C4: convert passes the target constructor no value for a field of
\* exclude_fields.
C4_ExcludedNotPassed ==
    \A t \in clients :
        call[t].invoked => DOMAIN call[t].passed \cap SetOf(cfg.exclude_fields) = {}

\* ------------------------------------------------------------------------
\* C5
\* ------------------------------------------------------------------------

\* C5: a same-name or renamed field with a value that is not None, of a type
\* T that is neither the declared type D of the target field nor Optional[T]
\* = D, with a coercion registered under (T, D): convert calls that coercion
\* on the value once, and the value it returns is the value of the target
\* field.
C5_RegisteredCoercionApplied ==
    \A e \in FieldEvents :
        LET c == call[e[1]]
            ev == c.log[e[2]]
        IN (Mismatched(ev) /\ Registered(ev)) =>
              /\ FollowsOrder(c)
              /\ ev.lookup /\ ev.applied = 1 /\ ev.parser = Coercion(ev)
              /\ ev.val_type = ev.val.t /\ ev.return_type = return_hints[ev.attr_to]
              /\ LET r == parse(Coercion(ev), ev.val)
                 IN IF r.raised # "" THEN ev.raised # "" /\ ~ev.assigned
                    ELSE /\ ev.assigned /\ ev.out = r.value
                         /\ TargetValue(c, ev.op, ev.attr_to) = r.value
                         /\ c.pc = "done" =>
                               /\ c.passed[ev.attr_to] = r.value
                               /\ c.returned[ev.attr_to] = r.value

\* a renamed int that became the str of its digits in the target
C5_Witness ==
    \E e \in FieldEvents :
        LET c == call[e[1]]
            ev == c.log[e[2]]
        IN /\ c.pc = "done"
           /\ ev.op = "rename"
           /\ ev.val = IntV(12)
           /\ ev.parser = "IntStrParser"
           /\ c.returned[ev.attr_to] = StrV(<<"1", "2">>)

\* ------------------------------------------------------------------------
\* C6
\* ------------------------------------------------------------------------

\* C6: a same-name or renamed field with a mismatched value that is not None
\* and cannot be bridged, no coercion being registered for the pair of types
\* or the registered one rejecting the value: convert raises ParsingError
\* with that origin field as attr_from and that target field as attr_to.
C6_ParsingErrorNamesPair ==
    \A e \in FieldEvents :
        LET c == call[e[1]]
            ev == c.log[e[2]]
            order == ProcessingOrder[e[2]]
        IN (/\ Mismatched(ev)
            /\ \/ ~Registered(ev)
               \/ parse(Coercion(ev), ev.val).raised = "ValueError") =>
              /\ FollowsOrder(c)
              /\ c.pc = "failed"
              /\ c.error.kind = "ParsingError"
              /\ c.error.attr_from = order[2]
              /\ c.error.attr_to = order[3]
              /\ ev.op = "samename" => c.error.attr_from = c.error.attr_to

\* a rename pair whose str value int() rejects
C6_Witness ==
    \E e \in FieldEvents :
        LET c == call[e[1]]
            ev == c.log[e[2]]
        IN /\ ev.op = "rename"
           /\ ev.attr_from # ev.attr_to
           /\ ev.val = StrV(<<"x">>)
           /\ ev.parser = "StrIntParser"
           /\ c.error = ParsingError(ev.attr_from, ev.attr_to, "ValueError")

\* ------------------------------------------------------------------------
\* C7
\* ------------------------------------------------------------------------

C8_FailureAborts ==
    \A t \in clients :
        LET c == call[t]
        IN \A k \in 1..Len(c.log) :
              (c.log[k].op \in {"samename", "rename", "compute"} /\ c.log[k].raised # "") =>
                  /\ FollowsOrder(c)
                  /\ k = Len(c.log)
                  /\ c.pc = "failed"
                  /\ c.error.kind = c.log[k].raised
                  /\ ~c.invoked
                  /\ c.passed = EmptyDict
                  /\ c.returned = EmptyDict
                  /\ (DOMAIN c.contains_result \cup DOMAIN c.rename_result
                        \cup DOMAIN c.need_compute_result)
                       \subseteq {ProcessingOrder[j][3] : j \in 1..(k - 1)}

\* the first same-name field failed with a second one, a rename pair and a
\* computed field still to come
C8_Witness ==
    \E t \in clients :
        /\ call[t].pc = "failed"
        /\ Len(call[t].log) = 1
        /\ Len(contains_iter) = 2
        /\ Len(origin_rename) > 0
        /\ Len(compute_iter) > 0

\* ------------------------------------------------------------------------
\* C9
\* ------------------------------------------------------------------------

\* convert(instance) run to its end with no other call in between
RECURSIVE RunAlone(_)
RunAlone(c) == IF Converting(c) THEN RunAlone(Step(c)) ELSE c

\* C9: convert changes none of origin_contains, origin_rename, return_rename,
\* return_hints, the compute mapping and the parser registry, and a call that
\* ran interleaved with another thread's ends as it would have run alone.
C9_ConvertReadsOnly ==
    /\ [][status = "ok" => engineVars' = engineVars]_vars
    /\ [](\A t \in clients :
             Finished(call[t]) => call[t] = RunAlone(Enter(call[t].instance)))

\* one call has returned a target, the other is between its rename pairs and
\* its computed fields or has failed
C9_Witness ==
    /\ clients = Threads
    /\ call[1].pc = "done"
    /\ call[2].pc \in {"rename", "compute", "failed"}
    /\ Len(call[2].log) > 0

\* ------------------------------------------------------------------------
\* C10
\* ------------------------------------------------------------------------

\* __init__ accepts a rename pair whose target is not declared
C10_InitSucceeds ==
    (/\ status # "class"
     /\ UndeclaredRenameTarget(cfg)
     /\ ~DuplicateRenameTargets(cfg)
     /\ DeclaredFields(cfg) # {}) => status = "ok"

\* C10 as stated: with a rename target that is not declared, __init__
\* succeeds and every call of convert ends at the lookup of that pair's
\* declared type in a KeyError that is not a ParsingError, no coercion having
\* been tried for the field.
C10_EveryCallKeyError ==
    /\ C10_InitSucceeds
    /\ (status = "ok" /\ UndeclaredRenameTarget(cfg)) =>
          \A t \in clients :
              Finished(call[t]) =>
                  LET c == call[t]
                      ev == c.log[Len(c.log)]
                  IN /\ c.pc = "failed"
                     /\ c.error = Exception("KeyError")
                     /\ ev.op = "rename"
                     /\ ev.attr_to \notin DOMAIN return_hints
                     /\ ~ev.lookup /\ ev.applied = 0

\* C10 as amended: with a rename target that is not declared, __init__
\* succeeds and every call of convert fails: a call that gets to that pair
\* and reads its origin attribute ends there, at the lookup of the declared
\* type, in a KeyError that is not a ParsingError, no coercion having been
\* tried for the field; any other call has failed before, at an earlier
\* field or at the read of the pair's origin attribute.
C10_CallsFailKeyErrorAtPair ==
    /\ C10_InitSucceeds
    /\ (status = "ok" /\ UndeclaredRenameTarget(cfg)) =>
          \A t \in clients :
              LET c == call[t]
              IN /\ c.pc \notin {"compute", "construct", "done"}
                 /\ c.pc # "parsed" => FollowsOrder(c)
                 /\ \A k \in 1..Len(c.log) :
                       (/\ c.log[k].op = "rename"
                        /\ c.log[k].attr_to \notin DeclaredFields(cfg)
                        /\ c.log[k].read) =>
                           /\ k = Len(c.log)
                           /\ c.pc = "failed"
                           /\ c.error = Exception("KeyError")
                           /\ ~c.log[k].lookup /\ c.log[k].applied = 0
                           /\ ~c.log[k].assigned

\* a call that got past the same-name fields and ended in the KeyError
C10_Witness ==
    \E t \in clients :
        /\ UndeclaredRenameTarget(cfg)
        /\ call[t].pc = "failed"
        /\ Len(call[t].log) > 1
        /\ call[t].error = Exception("KeyError")
        /\ call[t].log[Len(call[t].log)].val # NoneV

====
